---- MODULE Spec2Model ----
(***************************************************************************)
(* A model of crossword-builder: the Grid/Cell model (src/src/puzzle.rs,   *)
(* src/src/grid.rs), the Puzzle engine with its validation pipeline and    *)
(* its random black-square generator (src/src/puzzle.rs), and the          *)
(* length-indexed Dictionary with the SparseWord matcher                   *)
(* (src/src/dictionary.rs).                                                *)
(*                                                                         *)
(* A Grid is a sequence of rows, a row a sequence of cells.  Coordinates   *)
(* are the program's: (x, y) is column x of row y, both counted from 0.    *)
(* A cell is Black, Empty or a letter; a letter is the one-character       *)
(* string of its character.  A String is the sequence of its characters.   *)
(***************************************************************************)
EXTENDS Integers, Sequences, FiniteSets, TLC

VARIABLES size, cells, transpose, pc, row, col, black_set, calls, dict, arg, ret

vars == <<size, cells, transpose, pc, row, col, black_set, calls, dict, arg, ret>>

puzzle == <<size, cells, transpose>>
scan == <<row, col, black_set>>

----------------------------------------------------------------------------
(* Bounds of the model.                                                    *)

\* The largest side of a puzzle made by Puzzle::new.
MaxSize == 10
\* The largest side of a puzzle that set, set_symmetric and random_letters
\* are called on.
MaxEditSize == 3
\* The largest side of a puzzle made by Puzzle::from_grid.
MaxOpenedSize == 5
\* The most calls of set, set_symmetric and random_letters on one puzzle.
MaxCalls == 2
\* The number of letters random_letters draws before its draws repeat.
FillPeriod == 2
\* The number of letters of A..Z random_letters draws from.
NumFillLetters == 2

----------------------------------------------------------------------------
(* Program constants (src/src/main.rs).                                    *)

PERCENT_BLACK == 16
MAX_WORD_LEN == 30

----------------------------------------------------------------------------
(* Cell.                                                                   *)

Black == "Black"
Empty == "Empty"

UpperCase == <<"A", "B", "C", "D", "E", "F", "G", "H", "I", "J", "K", "L", "M",
               "N", "O", "P", "Q", "R", "S", "T", "U", "V", "W", "X", "Y", "Z">>
LowerCase == <<"a", "b", "c", "d", "e", "f", "g", "h", "i", "j", "k", "l", "m",
               "n", "o", "p", "q", "r", "s", "t", "u", "v", "w", "x", "y", "z">>

\* Cell::letter: the character of a non-Black cell, '_' for Empty.
letter(cell) == IF cell = Empty THEN "_" ELSE cell

\* Cell::as_string: the characters of a slice of non-Black cells.
as_string(slice) == [i \in 1..Len(slice) |-> letter(slice[i])]

----------------------------------------------------------------------------
(* Grid.                                                                   *)

Reverse(s) == [i \in 1..Len(s) |-> s[Len(s) + 1 - i]]

\* Grid::new
GridNew(n) == [y \in 1..n |-> [x \in 1..n |-> Empty]]

\* Grid::get, Grid::set, Grid::get_row
GridGet(g, x, y) == g[y + 1][x + 1]
GridSet(g, x, y, value) == [g EXCEPT ![y + 1][x + 1] = value]
GridGetRow(g, r) == g[r + 1]

\* Grid::transpose asserts a non-empty grid and indexes every row by the
\* columns of row 0: it panics on a row shorter than row 0.
CanTranspose(g) == Len(g) > 0 /\ \A j \in 1..Len(g) : Len(g[j]) >= Len(g[1])
GridTranspose(g) == [i \in 1..Len(g[1]) |-> [j \in 1..Len(g) |-> g[j][i]]]

\* The results of the checks: Ok(()) or a PuzzleError with its payload.
Ok == [tag |-> "Ok", n |-> 0, word |-> <<>>]
NotSymmetric == [tag |-> "NotSymmetric", n |-> 0, word |-> <<>>]
TooManyBlackSquares(n) == [tag |-> "TooManyBlackSquares", n |-> n, word |-> <<>>]
WordTooShort(word) == [tag |-> "WordTooShort", n |-> 0, word |-> word]
RepeatWord(word) == [tag |-> "RepeatWord", n |-> 0, word |-> word]
MadeUpWord(word) == [tag |-> "MadeUpWord", n |-> 0, word |-> word]

\* Grid::is_square
is_square(g) ==
    IF \A r \in 1..Len(g) : Len(g[r]) = Len(g) THEN Ok ELSE NotSymmetric

\* Grid::rotate_180: the rows in reverse order, each row reversed.
rotate_180(g) == [y \in 1..Len(g) |-> Reverse(g[Len(g) + 1 - y])]

\* Grid::black_squares_match
black_squares_match(self, other) ==
    \A y \in 0..(Len(self) - 1) : \A x \in 0..(Len(self) - 1) :
        LET left == GridGet(self, x, y)
            right == GridGet(other, x, y)
        IN  ~ (   (left = Black /\ right # Black)
               \/ (right = Black /\ left # Black))

\* Grid::is_symmetric
is_symmetric(g) ==
    IF black_squares_match(g, rotate_180(g)) THEN Ok ELSE NotSymmetric

\* The Black cells of a grid, counted over cells_row_major_iter.
BlackCount(g) ==
    Cardinality({yx \in UNION {{<<y, x>> : x \in 1..Len(g[y])} : y \in 1..Len(g)} :
                    g[yx[1]][yx[2]] = Black})

\* The comparison of acceptable_black_square_count with < for <=.
RatioOkStrict(black, total) == ((black * 100) \div total) < PERCENT_BLACK

\* The comparison of acceptable_black_square_count, usize division.
RatioOk(black, total) == ((black * 100) \div total) <= PERCENT_BLACK

\* Grid::acceptable_black_square_count
acceptable_black_square_count(g) ==
    LET total == Len(g) * Len(g)
    IN  IF RatioOk(BlackCount(g), total)
        THEN Ok
        ELSE TooManyBlackSquares(PERCENT_BLACK)

\* The loop of ok_dist_to_black_or_edge: the cells before the first Black.
RECURSIVE DistToBlack(_)
DistToBlack(slice) ==
    IF slice = <<>> \/ Head(slice) = Black
    THEN 0
    ELSE 1 + DistToBlack(Tail(slice))

\* The return expression of ok_dist_to_black_or_edge with 2 for 3.
DistOkFromTwo(dist) == dist = 0 \/ dist >= 2

\* The return expression of ok_dist_to_black_or_edge.
DistOk(dist) == dist = 0 \/ dist >= 3

\* Grid::ok_dist_to_black_or_edge
ok_dist_to_black_or_edge(slice) == DistOk(DistToBlack(slice))

----------------------------------------------------------------------------
(* Strings.                                                                *)

\* A letter outside ASCII (is_alphabetic holds of it): two bytes in UTF-8.
NonAsciiLetter == "a_umlaut"

\* The UTF-8 width of a character.
ByteLen(c) == IF c = NonAsciiLetter THEN 2 ELSE 1

\* String::len: the length in bytes.
RECURSIVE StrLen(_)
StrLen(word) == IF word = <<>> THEN 0 ELSE ByteLen(Head(word)) + StrLen(Tail(word))

\* char::to_ascii_lowercase and str::to_ascii_lowercase
CharToAsciiLowercase(c) ==
    IF \E i \in 1..Len(UpperCase) : UpperCase[i] = c
    THEN LowerCase[CHOOSE i \in 1..Len(UpperCase) : UpperCase[i] = c]
    ELSE c
to_ascii_lowercase(word) == [i \in 1..Len(word) |-> CharToAsciiLowercase(word[i])]

\* [String]::join(sep)
RECURSIVE Join(_, _)
Join(words, sep) ==
    IF words = <<>> THEN <<>>
    ELSE IF Len(words) = 1 THEN Head(words)
    ELSE Head(words) \o sep \o Join(Tail(words), sep)

----------------------------------------------------------------------------
(* Dictionary: a Vec of HashSets, bucket i (from 0) holding the words of   *)
(* String::len i.                                                          *)

\* Dictionary::new
DictNew(n) == [i \in 1..n |-> {}]

\* Dictionary::get: Vec::get, None past the end.
HasBucket(d, index) == index < Len(d)
Bucket(d, index) == d[index + 1]

\* Dictionary::insert
DictInsert(d, word) ==
    IF HasBucket(d, StrLen(word))
    THEN [d EXCEPT ![StrLen(word) + 1] = @ \cup {word}]
    ELSE d

\* Dictionary::is_valid
is_valid(d, word) ==
    IF HasBucket(d, StrLen(word)) THEN word \in Bucket(d, StrLen(word)) ELSE FALSE

----------------------------------------------------------------------------
(* Puzzle: word extraction and validation.                                 *)

\* slice::split on Black cells: one piece more than there are Black cells.
RECURSIVE SplitOnBlack(_)
SplitOnBlack(r) ==
    IF r = <<>> THEN << <<>> >>
    ELSE LET rest == SplitOnBlack(Tail(r))
         IN  IF Head(r) = Black
             THEN << <<>> >> \o rest
             ELSE << <<Head(r)>> \o Head(rest) >> \o Tail(rest)

\* The pieces of a row with the empty ones kept.
RowWordsUnfiltered(r) == SplitOnBlack(r)

\* One row's words: the non-empty pieces.
RowWords(r) == SelectSeq(SplitOnBlack(r), LAMBDA x : x # <<>>)

\* rows_iter().flat_map(...): the words of every row, in order.
RECURSIVE GridWords(_)
GridWords(g) == IF g = <<>> THEN <<>> ELSE RowWords(Head(g)) \o GridWords(Tail(g))

\* Puzzle::words_across_iter, words_down_iter, all_words_iter
words_across_iter(p) == GridWords(p.cells)
words_down_iter(p) == GridWords(p.transpose)
all_words_iter(p) == words_across_iter(p) \o words_down_iter(p)

\* all_words_iter().map(Cell::as_string)
AllWordStrings(p) ==
    LET ws == all_words_iter(p) IN [i \in 1..Len(ws) |-> as_string(ws[i])]

\* Puzzle::no_repeat_words: the loop over the words with the map of those seen.
RECURSIVE NoRepeatFrom(_, _)
NoRepeatFrom(words, seen) ==
    IF words = <<>> THEN Ok
    ELSE IF StrLen(Head(words)) > 0
         THEN IF Head(words) \in seen
              THEN RepeatWord(Head(words))
              ELSE NoRepeatFrom(Tail(words), seen \cup {Head(words)})
         ELSE NoRepeatFrom(Tail(words), seen)
no_repeat_words(p) == NoRepeatFrom(AllWordStrings(p), {})

\* Puzzle::no_too_short_words
RECURSIVE NoShortFrom(_)
NoShortFrom(words) ==
    IF words = <<>> THEN Ok
    ELSE IF StrLen(Head(words)) < 3
         THEN WordTooShort(Head(words))
         ELSE NoShortFrom(Tail(words))
no_too_short_words(p) == NoShortFrom(AllWordStrings(p))

\* Puzzle::valid_words ending at the first word the dictionary lacks.
valid_wordsFailFast(p, d) ==
    LET invalid == SelectSeq(AllWordStrings(p),
                             LAMBDA w : ~ is_valid(d, to_ascii_lowercase(w)))
    IN  IF invalid = <<>> THEN Ok ELSE MadeUpWord(Head(invalid))

\* Puzzle::valid_words, against the dictionary d.
InvalidWords(p, d) ==
    SelectSeq(AllWordStrings(p), LAMBDA w : ~ is_valid(d, to_ascii_lowercase(w)))
valid_words(p, d) ==
    IF InvalidWords(p, d) = <<>>
    THEN Ok
    ELSE MadeUpWord(Join(InvalidWords(p, d), <<",", " ">>))

\* The ? operator: the first error ends the function.
Try(result, rest) == IF result.tag # "Ok" THEN result ELSE rest

\* Puzzle::validate_base with the ratio checked before the symmetry.
validate_baseRatioFirst(p) ==
    Try(is_square(p.cells),
    Try(acceptable_black_square_count(p.cells),
    Try(is_symmetric(p.cells),
    Try(no_too_short_words(p),
    Ok))))

\* Puzzle::validate_base
validate_base(p) ==
    Try(is_square(p.cells),
    Try(is_symmetric(p.cells),
    Try(acceptable_black_square_count(p.cells),
    Try(no_too_short_words(p),
    Ok))))

\* Puzzle::validate_words
validate_words(p, d) ==
    Try(no_repeat_words(p),
    Try(no_too_short_words(p),
    Try(valid_words(p, d),
    Ok)))

----------------------------------------------------------------------------
(* Puzzle: construction and the write paths.                               *)

\* Puzzle::new
PuzzleNew(n) ==
    [size |-> n, cells |-> GridNew(n), transpose |-> GridTranspose(GridNew(n))]

\* Puzzle::from_grid
from_grid(g) == [size |-> Len(g), cells |-> g, transpose |-> GridTranspose(g)]

\* Puzzle::set with the transpose written at the coordinates of the grid.
PuzzleSetSameCoordinates(p, x, y, value) ==
    [p EXCEPT !.cells = GridSet(@, x, y, value),
              !.transpose = GridSet(@, x, y, value)]

\* Puzzle::set
PuzzleSet(p, x, y, value) ==
    [p EXCEPT !.cells = GridSet(@, x, y, value),
              !.transpose = GridSet(@, y, x, value)]

\* set_symmetric with the half turn only: (x, y) and the cell opposite.
set_symmetricHalfTurn(p, x, y, val) ==
    LET p1 == PuzzleSet(p, x, y, val)
    IN  PuzzleSet(p1, p.size - (x + 1), p.size - (y + 1), val)

\* Puzzle::set_symmetric
set_symmetric(p, x, y, val) ==
    LET p1 == PuzzleSet(p, x, y, val)
        p2 == PuzzleSet(p1, p.size - (y + 1), x, val)
        p3 == PuzzleSet(p2, p.size - (x + 1), p.size - (y + 1), val)
    IN  PuzzleSet(p3, y, p.size - (x + 1), val)

\* valid_black_placement with the slices right and down not truncated: the
\* cell (x, y) itself is their first cell.
valid_black_placementWithCell(p, x, y) ==
    LET r == GridGetRow(p.cells, y)
        c == GridGetRow(p.transpose, x)
        left == Reverse(SubSeq(r, 1, x))
        right == SubSeq(r, x + 1, Len(r))
        up == Reverse(SubSeq(c, 1, y))
        down == SubSeq(c, y + 1, Len(c))
    IN  /\ ok_dist_to_black_or_edge(left)
        /\ ok_dist_to_black_or_edge(right)
        /\ ok_dist_to_black_or_edge(up)
        /\ ok_dist_to_black_or_edge(down)

\* Puzzle::valid_black_placement
valid_black_placement(p, x, y) ==
    LET r == GridGetRow(p.cells, y)
        c == GridGetRow(p.transpose, x)
        left == Reverse(SubSeq(r, 1, x))
        right == SubSeq(r, x + 2, Len(r))
        up == Reverse(SubSeq(c, 1, y))
        down == SubSeq(c, y + 2, Len(c))
    IN  /\ ok_dist_to_black_or_edge(left)
        /\ ok_dist_to_black_or_edge(right)
        /\ ok_dist_to_black_or_edge(up)
        /\ ok_dist_to_black_or_edge(down)

\* The letters random_letters draws from: the first NumFillLetters of A..Z.
FillLetters == {UpperCase[i] : i \in 1..NumFillLetters}

\* The draws of one run of random_letters: draw k is tape[k % FillPeriod].
FillTapes == [0..(FillPeriod - 1) -> FillLetters]

\* Puzzle::random_letters from the cell of linear index i on, k letters drawn
\* so far: every Empty cell gets the next draw.
RECURSIVE FillFrom(_, _, _, _)
FillFrom(p, tape, i, k) ==
    IF i >= p.size * p.size THEN p
    ELSE LET x == i % p.size
             y == i \div p.size
         IN  IF GridGet(p.cells, x, y) = Empty
             THEN FillFrom(PuzzleSet(p, x, y, tape[k % FillPeriod]), tape, i + 1, k + 1)
             ELSE FillFrom(p, tape, i + 1, k)
random_letters(p, tape) == FillFrom(p, tape, 0, 0)

----------------------------------------------------------------------------
(* Puzzle::random_black, one step per cell the scan visits.                *)

Max(a, b) == IF a >= b THEN a ELSE b

\* The guard of random_black with its limit one lower.
TooSmallBelowFour(n) == n < 4

\* The guard of random_black: nothing is done for a puzzle this small.
TooSmall(n) == n < 5

quadrant(n) == Max(2, n \div 2)
upper_threshold_black(n) == (n * n * PERCENT_BLACK) \div 100

\* The scan position after a cell that placed nothing: the next column, the
\* next row after the last column, the top again after the last row.
AfterCell(r, c, n) ==
    IF c + 1 < quadrant(n) THEN <<r, c + 1>>
    ELSE IF r + 1 < quadrant(n) THEN <<r + 1, 0>>
    ELSE <<0, 0>>

\* The scan position if a placement sent the scan back to the top.
AfterBreakToTop(r, c, n) == <<0, 0>>

\* The scan position after `break`: the column loop ends, the row loop goes on.
AfterBreak(r, c, n) ==
    IF r + 1 < quadrant(n) THEN <<r + 1, 0>> ELSE <<0, 0>>

\* The stop test with the threshold not divided by the four cells of a
\* placement.
ReachedWholeThreshold(placed, n) == placed >= upper_threshold_black(n)

\* The stop test after a placement.
ReachedThreshold(placed, n) == placed >= upper_threshold_black(n) \div 4

----------------------------------------------------------------------------
(* The puzzle engine as a state machine: a puzzle made by Puzzle::new,     *)
(* random_black run on it cell by cell, and, on small puzzles, calls of    *)
(* set, set_symmetric and random_letters before and after it.              *)

\* The Puzzle the state holds.
Self == [size |-> size, cells |-> cells, transpose |-> transpose]

NoCall == [op |-> "none"]

\* The cells set and set_symmetric are called with.
EditCells == {Black, "A"}

\* The state once a Puzzle is constructed, no method called yet.
Constructed(p, call) ==
    /\ size = p.size
    /\ cells = p.cells
    /\ transpose = p.transpose
    /\ pc = "idle"
    /\ row = 0 /\ col = 0 /\ black_set = 0
    /\ calls = 0
    /\ arg = call
    /\ ret = NoCall

\* The grids from_grid is given here: all Empty but for one cell.
OneCellGrids ==
    UNION {{GridSet(GridNew(n), x, y, value) :
                x \in 0..(n - 1), y \in 0..(n - 1), value \in EditCells} :
           n \in 1..MaxOpenedSize}

\* Puzzle::new(name, n) for a side n, or Puzzle::from_grid of a small grid.
Init ==
    /\ dict = DictNew(MAX_WORD_LEN)
    /\ \/ \E n \in 1..MaxSize : Constructed(PuzzleNew(n), [op |-> "new"])
       \/ \E g \in OneCellGrids : Constructed(from_grid(g), [op |-> "from_grid"])

\* random_black is called: it returns at once on a small puzzle, and starts
\* its scan at the top-left cell otherwise.
RandomBlackCall ==
    /\ pc = "idle"
    /\ IF TooSmall(size)
       THEN pc' = "done" /\ UNCHANGED scan
       ELSE pc' = "scan" /\ row' = 0 /\ col' = 0 /\ black_set' = 0
    /\ ret' = NoCall
    /\ UNCHANGED <<puzzle, calls, dict, arg>>

\* The cell under the scan is one random_black flips a coin for.
Eligible ==
    /\ GridGet(cells, col, row) # Black
    /\ valid_black_placement(Self, col, row)

\* The scan passes a cell that is Black or where a Black would be misplaced.
ScanSkip ==
    /\ pc = "scan"
    /\ ~ Eligible
    /\ row' = AfterCell(row, col, size)[1]
    /\ col' = AfterCell(row, col, size)[2]
    /\ UNCHANGED <<puzzle, pc, black_set, calls, dict, arg, ret>>

\* The coin comes up false: the cell is left as it is.
ScanCoinFalse ==
    /\ pc = "scan"
    /\ Eligible
    /\ row' = AfterCell(row, col, size)[1]
    /\ col' = AfterCell(row, col, size)[2]
    /\ UNCHANGED <<puzzle, pc, black_set, calls, dict, arg, ret>>

\* The coin comes up true: the cell and its three images turn Black; the
\* function returns at the threshold and breaks out of the row otherwise.
ScanCoinTrue ==
    /\ pc = "scan"
    /\ Eligible
    /\ LET p == set_symmetric(Self, col, row, Black)
       IN  cells' = p.cells /\ transpose' = p.transpose
    /\ black_set' = black_set + 1
    /\ IF ReachedThreshold(black_set + 1, size)
       THEN pc' = "done" /\ row' = 0 /\ col' = 0
       ELSE /\ pc' = pc
            /\ row' = AfterBreak(row, col, size)[1]
            /\ col' = AfterBreak(row, col, size)[2]
    /\ UNCHANGED <<size, calls, dict, arg, ret>>

\* A method is called before or after random_black, on a small puzzle that
\* Puzzle::new made.
CanEdit ==
    pc # "scan" /\ arg.op = "new" /\ size <= MaxEditSize /\ calls < MaxCalls

\* Puzzle::set is called.
Set ==
    /\ CanEdit
    /\ \E x \in 0..(size - 1), y \in 0..(size - 1), value \in EditCells :
          LET p == PuzzleSet(Self, x, y, value)
          IN  cells' = p.cells /\ transpose' = p.transpose
    /\ calls' = calls + 1
    /\ ret' = NoCall
    /\ UNCHANGED <<size, pc, scan, dict, arg>>

\* Puzzle::set_symmetric is called.
SetSymmetric ==
    /\ CanEdit
    /\ \E x \in 0..(size - 1), y \in 0..(size - 1), val \in EditCells :
          LET p == set_symmetric(Self, x, y, val)
          IN  cells' = p.cells /\ transpose' = p.transpose
    /\ calls' = calls + 1
    /\ ret' = NoCall
    /\ UNCHANGED <<size, pc, scan, dict, arg>>

\* Puzzle::random_letters is called.
RandomLetters ==
    /\ CanEdit
    /\ \E tape \in FillTapes :
          LET p == random_letters(Self, tape)
          IN  cells' = p.cells /\ transpose' = p.transpose
    /\ calls' = calls + 1
    /\ ret' = NoCall
    /\ UNCHANGED <<size, pc, scan, dict, arg>>

\* Puzzle::validate_base is called once random_black has returned.
ValidateBase ==
    /\ pc = "done"
    /\ ret' = [op |-> "validate_base", val |-> validate_base(Self)]
    /\ UNCHANGED <<puzzle, pc, scan, calls, dict, arg>>

Next ==
    \/ RandomBlackCall
    \/ ScanSkip
    \/ ScanCoinFalse
    \/ ScanCoinTrue
    \/ Set
    \/ SetSymmetric
    \/ RandomLetters
    \/ ValidateBase

Spec == Init /\ [][Next]_vars

\* The engine with a running random_black that goes on, step after step,
\* and with a fair coin: rng.gen_bool(1.0 / 2.0) does not come up false for
\* ever at the cells the scan flips it for.
SpecFair ==
    /\ Spec
    /\ WF_vars(ScanSkip \/ ScanCoinFalse \/ ScanCoinTrue)
    /\ SF_vars(ScanCoinTrue)

----------------------------------------------------------------------------
(* The check commands (src/src/main.rs CheckBase, CheckWords): a puzzle    *)
(* opened from a parsed grid, then validated.  The grid and the dictionary *)
(* are the inputs.                                                         *)

\* The largest side of the grids of Black and Empty cells taken in full.
MaxGridSide == 3
\* The most rows, and the longest row, of the grids with rows of any length.
MaxRaggedRows == 2
MaxRowLen == 3
\* The largest side of the grids whose first k cells are Black.
MaxRatioSide == 6
\* The number of rows of RowVocabulary the lettered grids are made of.
NumRows == 7
\* The most lines of DictWordList a dictionary is loaded from.
NumDictWords == 6

BaseCells == {Black, Empty}

\* Every square grid of Black and Empty cells up to MaxGridSide.
SmallGrids == UNION {[1..n -> [1..n -> BaseCells]] : n \in 1..MaxGridSide}

\* Grids of up to MaxRaggedRows rows, each row of any length up to MaxRowLen.
RaggedGrids ==
    LET rows == UNION {[1..c -> BaseCells] : c \in 0..MaxRowLen}
    IN  UNION {[1..r -> rows] : r \in 1..MaxRaggedRows}

\* The square grid of side n whose first k cells, row by row, are Black.
BlackPrefixGrid(n, k) ==
    [y \in 1..n |-> [x \in 1..n |-> IF (y - 1) * n + (x - 1) < k THEN Black ELSE Empty]]
RatioGrids ==
    UNION {{BlackPrefixGrid(n, k) : k \in 0..(n * n)} : n \in 1..MaxRatioSide}

\* Rows of three cells; the lettered grids are three of them.
RowVocabulary ==
    << <<"S", "I", "T">>,
       <<"A", Black, "E">>,
       <<"P", "U", "N">>,
       <<"A", "T", "E">>,
       <<"P", "A", "N">>,
       <<"s", "i", "t">>,
       <<NonAsciiLetter, NonAsciiLetter, Black>>,
       <<Empty, "A", "T">> >>
LetteredGrids == [1..3 -> {RowVocabulary[i] : i \in 1..NumRows}]

\* The lines of the dictionary file.
DictWordList ==
    << <<"s", "i", "t">>,
       <<"s", "a", "p">>,
       <<"p", "a", "n">>,
       <<"t", "e", "n">>,
       <<"a", "t", "e">>,
       <<"i", "t", "a">>,
       <<"p", "u", "n">> >>

\* The dictionary loaded from the lines of a file (the DICTIONARY
\* initializer): every line is inserted, in order.
RECURSIVE DictLoad(_, _)
DictLoad(d, lines) ==
    IF lines = <<>> THEN d ELSE DictLoad(DictInsert(d, Head(lines)), Tail(lines))

\* The dictionaries of the files that hold the first k lines of DictWordList.
Dictionaries ==
    {DictLoad(DictNew(MAX_WORD_LEN), SubSeq(DictWordList, 1, k)) : k \in 0..NumDictWords}

\* The puzzle as open_from_file leaves it.  from_grid panics in
\* Grid::transpose on a grid it cannot transpose: no puzzle is made of one.
InitCheck ==
    \/ /\ dict = DictNew(MAX_WORD_LEN)
       /\ \E g \in SmallGrids \cup RaggedGrids \cup RatioGrids :
             /\ CanTranspose(g)
             /\ Constructed(from_grid(g), [op |-> "from_grid"])
    \/ /\ dict \in Dictionaries
       /\ \E g \in LetteredGrids : Constructed(from_grid(g), [op |-> "from_grid"])

\* validate_base on the opened puzzle.
CheckBase ==
    /\ ret' = [op |-> "validate_base", val |-> validate_base(Self)]
    /\ UNCHANGED <<puzzle, pc, scan, calls, dict, arg>>

\* validate_words on the opened puzzle, against the dictionary.
CheckWords ==
    /\ ret' = [op |-> "validate_words", val |-> validate_words(Self, dict)]
    /\ UNCHANGED <<puzzle, pc, scan, calls, dict, arg>>

\* Grid::acceptable_black_square_count on the grid of the opened puzzle.
CheckBlackCount ==
    /\ ret' = [op |-> "acceptable_black_square_count",
               val |-> acceptable_black_square_count(cells)]
    /\ UNCHANGED <<puzzle, pc, scan, calls, dict, arg>>

NextCheck == CheckBase \/ CheckWords \/ CheckBlackCount

SpecCheck == InitCheck /\ [][NextCheck]_vars

----------------------------------------------------------------------------
(* SparseWord (src/src/dictionary.rs).                                     *)

\* Option<char>: None, or the character itself for Some.
None == "None"

\* The pattern SparseWord::new builds after "(?i)": '.' for None, the
\* character for Some.
RegexOf(vec) == [i \in 1..Len(vec) |-> IF vec[i] = None THEN "." ELSE vec[i]]

\* SparseWord::new
SparseWordNew(vec) == [regex |-> RegexOf(vec), len |-> Len(vec)]

\* One character of the pattern against one of the text, under (?i).
AtomMatches(atom, c) ==
    atom = "." \/ CharToAsciiLowercase(atom) = CharToAsciiLowercase(c)

\* Regex::is_match: the pattern matches at some offset of the text.
RegexIsMatch(regex, text) ==
    \E start \in 0..(Len(text) - Len(regex)) :
        \A j \in 1..Len(regex) : AtomMatches(regex[j], text[start + j])

\* SparseWord::matches
matches(sw, word) == RegexIsMatch(sw.regex, word)

\* The loop of suggest_words over the bucket's words in the order `words`.
RECURSIVE SuggestFrom(_, _, _, _)
SuggestFrom(words, sw, count, suggestions) ==
    IF words = <<>> THEN suggestions
    ELSE LET pushed == IF matches(sw, Head(words))
                       THEN Append(suggestions, Head(words))
                       ELSE suggestions
         IN  IF Len(pushed) >= count
             THEN pushed
             ELSE SuggestFrom(Tail(words), sw, count, pushed)

\* Dictionary::suggest_words, the HashSet iterated in the order `words`.
suggest_words(d, words, sw, count) ==
    IF HasBucket(d, sw.len) THEN SuggestFrom(words, sw, count, <<>>) ELSE <<>>

----------------------------------------------------------------------------
(* The dictionary: loaded line by line, then queried.                      *)

\* The number of lines of SuggestLines a dictionary file may hold.
NumLines == 6
\* The number of patterns of PatternList queried.
NumPatterns == 6
\* The largest count suggest_words is called with.
MaxCount == 3

SuggestLines ==
    << <<"a", "c", "t">>,
       <<"a", "r", "t">>,
       <<"c", "a", "t">>,
       <<"a", "c", "t", "s">>,
       <<"a", "n", "t">>,
       <<"a", NonAsciiLetter>>,
       <<"c", "a", "r", "t">> >>
Lines == {SuggestLines[i] : i \in 1..NumLines}

PatternList ==
    << <<"A", None, "T">>,
       <<"A", "C", "T">>,
       <<None, None, None>>,
       <<"a", None, None, None>>,
       <<"A", "X", "Z">>,
       <<"c", "A", None>>,
       <<None, None>> >>
Patterns == {PatternList[i] : i \in 1..NumPatterns}

\* The orders a HashSet may be iterated in.
Orders(S) ==
    {f \in [1..Cardinality(S) -> S] :
        \A i \in 1..Cardinality(S) : \A j \in 1..Cardinality(S) : i # j => f[i] # f[j]}

\* No puzzle takes part: the puzzle of the state is a new one of side 1.
InitDict ==
    /\ dict = DictNew(MAX_WORD_LEN)
    /\ Constructed(PuzzleNew(1), [op |-> "new"])

\* The DICTIONARY initializer inserts a line, before any query.
Insert ==
    /\ ret = NoCall
    /\ \E word \in Lines : dict' = DictInsert(dict, word)
    /\ UNCHANGED <<puzzle, pc, scan, calls, arg, ret>>

\* Dictionary::suggest_words is called: the one query of the run.
Suggest ==
    /\ ret = NoCall
    /\ \E vec \in Patterns, count \in 0..MaxCount :
          \E words \in (IF HasBucket(dict, Len(vec))
                        THEN Orders(Bucket(dict, Len(vec)))
                        ELSE {<<>>}) :
             ret' = [op |-> "suggest_words", partial_word |-> vec, count |-> count,
                     val |-> suggest_words(dict, words, SparseWordNew(vec), count)]
    /\ UNCHANGED <<puzzle, pc, scan, calls, dict, arg>>

\* SparseWord::matches is called: the one query of the run.
Matches ==
    /\ ret = NoCall
    /\ \E vec \in Patterns, word \in Lines :
          ret' = [op |-> "matches", partial_word |-> vec, word |-> word,
                  val |-> matches(SparseWordNew(vec), word)]
    /\ UNCHANGED <<puzzle, pc, scan, calls, dict, arg>>

NextDict == Insert \/ Suggest \/ Matches

SpecDict == InitDict /\ [][NextDict]_vars

----------------------------------------------------------------------------
(* Grid::ok_dist_to_black_or_edge on a slice.                              *)

\* The longest slice.
MaxSliceLen == 4

SliceCells == {Black, Empty, "A"}
Slices == UNION {[1..n -> SliceCells] : n \in 0..MaxSliceLen}

InitSlice ==
    /\ dict = DictNew(MAX_WORD_LEN)
    /\ \E slice \in Slices :
          Constructed(PuzzleNew(1), [op |-> "slice", slice |-> slice])

OkDist ==
    /\ arg.op = "slice"
    /\ ret' = [op |-> "ok_dist_to_black_or_edge",
               val |-> ok_dist_to_black_or_edge(arg.slice)]
    /\ UNCHANGED <<puzzle, pc, scan, calls, dict, arg>>

NextSlice == OkDist

SpecSlice == InitSlice /\ [][NextSlice]_vars

----------------------------------------------------------------------------
(* The text format: Display for Cell and Grid, Cell::from_str and          *)
(* Grid::from_bytes.  A buffer is the sequence of its characters; a byte   *)
(* that is not part of any UTF-8 character is a character of its own.      *)

\* The longest buffer given to from_bytes.
MaxBufLen == 4
\* The most rows of the grids given to Display.
MaxTextRows == 2

LF == "LF"
Space == " "
BlackGlyph == "black_glyph"
EmptyGlyph == "empty_glyph"
Digit == "1"
\* A whitespace character outside ASCII, U+00A0 for one.
UnicodeSpace == "nbsp"
\* A byte that is no UTF-8.
InvalidByte == "0xFF"

\* char::is_alphabetic, on the characters of the model.
is_alphabetic(c) ==
       (\E i \in 1..Len(UpperCase) : c = UpperCase[i])
    \/ (\E i \in 1..Len(LowerCase) : c = LowerCase[i])
    \/ c = NonAsciiLetter

\* Display for Cell: the character of the cell, then a space.
CellDisplay(cell) ==
    << (IF cell = Black THEN BlackGlyph
        ELSE IF cell = Empty THEN EmptyGlyph
        ELSE cell), Space >>

RECURSIVE RowDisplay(_)
RowDisplay(r) ==
    IF r = <<>> THEN <<>> ELSE CellDisplay(Head(r)) \o RowDisplay(Tail(r))

\* Display for Grid: every row's cells, then a newline.
RECURSIVE GridDisplay(_)
GridDisplay(g) ==
    IF g = <<>> THEN <<>>
    ELSE RowDisplay(Head(g)) \o <<LF>> \o GridDisplay(Tail(g))

\* slice::split on one character: one piece more than there are separators.
RECURSIVE SplitOn(_, _)
SplitOn(s, sep) ==
    IF s = <<>> THEN << <<>> >>
    ELSE LET rest == SplitOn(Tail(s), sep)
         IN  IF Head(s) = sep
             THEN << <<>> >> \o rest
             ELSE << <<Head(s)>> \o Head(rest) >> \o Tail(rest)

\* str::split_ascii_whitespace: the non-empty pieces between ASCII spaces.
split_ascii_whitespace(s) == SelectSeq(SplitOn(s, Space), LAMBDA t : t # <<>>)

\* str::trim: whitespace, that outside ASCII too, is cut from both ends.
RECURSIVE TrimStart(_)
TrimStart(s) ==
    IF s # <<>> /\ Head(s) \in {Space, UnicodeSpace}
    THEN TrimStart(Tail(s))
    ELSE s

trim(s) == Reverse(TrimStart(Reverse(TrimStart(s))))

\* The results of the parsers.
OkCell(cell) == [tag |-> "Ok", cell |-> cell]
ErrCell(e) == [tag |-> e, cell |-> Empty]
OkGrid(g) == [tag |-> "Ok", grid |-> g]
ErrGrid(e) == [tag |-> e, grid |-> <<>>]

\* Cell::from_str: the first character of the trimmed token decides;
\* next().unwrap() panics when nothing is left of the token.
CellFromStr(s) ==
    LET t == trim(s)
    IN  IF t = <<>> THEN ErrCell("Panic")
        ELSE LET c == Head(t)
             IN  IF c = BlackGlyph THEN OkCell(Black)
                 ELSE IF c = EmptyGlyph THEN OkCell(Empty)
                 ELSE IF is_alphabetic(c) THEN OkCell(c)
                 ELSE ErrCell("InvalidPuzzleFormat")

\* collect() into a Result: the cells, or the first error.
RECURSIVE CollectCells(_)
CollectCells(tokens) ==
    IF tokens = <<>> THEN OkGrid(<<>>)
    ELSE LET first == CellFromStr(Head(tokens))
         IN  IF first.tag # "Ok" THEN ErrGrid(first.tag)
             ELSE LET rest == CollectCells(Tail(tokens))
                  IN  IF rest.tag # "Ok" THEN rest
                      ELSE OkGrid(<<first.cell>> \o rest.grid)

\* std::str::from_utf8 of a row succeeds.
IsUtf8(r) == \A i \in 1..Len(r) : r[i] # InvalidByte

\* The loop of from_bytes over the rows, the parsed rows so far in cells.
RECURSIVE ParseRows(_, _)
ParseRows(rows, parsed) ==
    IF rows = <<>> THEN OkGrid(parsed)
    ELSE LET r == Head(rows)
         IN  IF Len(r) > 0
             THEN IF ~ IsUtf8(r) THEN ErrGrid("NonUtf8")
                  ELSE LET row_cells == CollectCells(split_ascii_whitespace(r))
                       IN  IF row_cells.tag # "Ok" THEN row_cells
                           ELSE ParseRows(Tail(rows), Append(parsed, row_cells.grid))
             ELSE ParseRows(Tail(rows), parsed)

\* Grid::from_bytes
from_bytes(buf) == ParseRows(SplitOn(buf, LF), <<>>)

\* The characters of the buffers, and the buffers.
BufChars ==
    {LF, Space, BlackGlyph, EmptyGlyph, "A", "b", NonAsciiLetter, Digit,
     UnicodeSpace, InvalidByte}
Bufs == UNION {[1..n -> BufChars] : n \in 0..MaxBufLen}

\* The grids written before any parsing: rows of one or two cells.
TextCells == {Black, Empty, "A", "b", NonAsciiLetter}
TextRows == [1..1 -> TextCells] \cup [1..2 -> TextCells]
TextGrids == UNION {[1..n -> TextRows] : n \in 0..MaxTextRows}

InitText ==
    /\ dict = DictNew(MAX_WORD_LEN)
    /\ \/ \E buf \in Bufs :
             Constructed(PuzzleNew(1), [op |-> "bytes", buf |-> buf])
       \/ \E g \in TextGrids :
             Constructed(PuzzleNew(1), [op |-> "grid", grid |-> g])

\* Grid::from_bytes on the bytes of a file (Puzzle::open_from_file).
FromBytes ==
    /\ arg.op = "bytes"
    /\ ret = NoCall
    /\ ret' = [op |-> "from_bytes", grid |-> <<>>, buf |-> arg.buf,
               val |-> from_bytes(arg.buf)]
    /\ UNCHANGED <<puzzle, pc, scan, calls, dict, arg>>

\* The outcome of writing the grid g.
DisplayOf(g) ==
    [op |-> "display", grid |-> g, buf |-> GridDisplay(g), val |-> OkGrid(g)]

\* The grid is written in the text format (Puzzle::save_to_file): a grid
\* given as such, or the grid from_bytes has returned.
Display ==
    /\ \/ arg.op = "grid" /\ ret = NoCall /\ ret' = DisplayOf(arg.grid)
       \/ ret.op = "from_bytes" /\ ret.val.tag = "Ok"
             /\ ret' = DisplayOf(ret.val.grid)
    /\ UNCHANGED <<puzzle, pc, scan, calls, dict, arg>>

\* The written text is parsed again.
Reparse ==
    /\ ret.op = "display"
    /\ ret' = [op |-> "reparse", grid |-> ret.grid, buf |-> ret.buf,
               val |-> from_bytes(ret.buf)]
    /\ UNCHANGED <<puzzle, pc, scan, calls, dict, arg>>

NextText == FromBytes \/ Display \/ Reparse

SpecText == InitText /\ [][NextText]_vars

----------------------------------------------------------------------------
(* The Dictionary under insert and is_valid: the DICTIONARY initializer    *)
(* inserts the lines of the word list, then is_valid is asked for a word.  *)

\* The number of letters of a..z the words of the word list are made of.
NumWordLetters == 1

\* The word of n times the character c.
Repeated(c, n) == [i \in 1..n |-> c]

\* The lengths of the lines: short ones, and those around MAX_WORD_LEN.
WordLens == {1, 2, MAX_WORD_LEN - 1, MAX_WORD_LEN, MAX_WORD_LEN + 1}

\* The lines of the word list: one letter repeated, and a word with a
\* letter outside ASCII.
WordPool ==
    {Repeated(LowerCase[i], n) : i \in 1..NumWordLetters, n \in WordLens}
      \cup {<<"a", NonAsciiLetter>>}

InitWords ==
    /\ dict = DictNew(MAX_WORD_LEN)
    /\ Constructed(PuzzleNew(1), [op |-> "lines", inserted |-> {}])

\* The DICTIONARY initializer inserts a line, before any query; arg keeps
\* the lines inserted so far.
InsertLine ==
    /\ ret = NoCall
    /\ \E word \in WordPool :
          /\ dict' = DictInsert(dict, word)
          /\ arg' = [arg EXCEPT !.inserted = @ \cup {word}]
    /\ UNCHANGED <<puzzle, pc, scan, calls, ret>>

\* Dictionary::is_valid is called.
IsValid ==
    /\ \E word \in WordPool :
          ret' = [op |-> "is_valid", word |-> word, val |-> is_valid(dict, word)]
    /\ UNCHANGED <<puzzle, pc, scan, calls, dict, arg>>

NextWords == InsertLine \/ IsValid

SpecWords == InitWords /\ [][NextWords]_vars

----------------------------------------------------------------------------
(* Claims.                                                                 *)

\* random_black has returned from a run on a newly created, all-Empty
\* puzzle of side 5 or more, and nothing else was called on the puzzle.
GeneratedBase == arg.op = "new" /\ pc = "done" /\ calls = 0 /\ size >= 5

\* C1: for a newly created all-Empty puzzle of any size >= 5, every
\* terminating run of random_black leaves a grid on which validate_base
\* returns Ok.
C1_RandomBlackValidates == GeneratedBase => validate_base(Self) = Ok


\* C2: in every state reachable from Puzzle::new by random_black,
\* random_letters, set_symmetric and set, the cached transpose is the
\* transpose of the grid: transpose[x][y] = cells[y][x] for x, y in 0..size.
C2_TransposeInSync ==
    \A x \in 0..(size - 1) : \A y \in 0..(size - 1) :
        transpose[x + 1][y + 1] = cells[y + 1][x + 1]

\* A grid that differs from its transpose, written by set, set_symmetric or
\* random_letters, with random_black called too.
C2_Witness == cells # transpose /\ calls > 0 /\ pc = "done"

\* C6: for a puzzle of size 1 to 4 random_black is a no-op: the call returns
\* at once, the scan that flips the coins is never entered, and every cell of
\* the grid and of the transpose is as before the call.
C6_SmallPuzzleNoOp ==
    [][size < 5 =>
          /\ pc' # "scan"
          /\ (pc = "idle" /\ pc' # "idle") =>
                (pc' = "done" /\ cells' = cells /\ transpose' = transpose)]_vars

\* random_black has returned on a puzzle of side 4 or less that holds cells
\* written before the call.
C6_Witness == size < 5 /\ pc = "done" /\ cells # GridNew(size)


\* The stages of validate_base, stated on the grid itself.
Square(g) == \A y \in 1..Len(g) : Len(g[y]) = Len(g)
Symmetric180(g) ==
    \A y \in 1..Len(g) : \A x \in 1..Len(g) :
        (g[y][x] = Black) <=> (g[Len(g) + 1 - y][Len(g) + 1 - x] = Black)
RECURSIVE Blacks(_)
Blacks(g) ==
    IF g = <<>> THEN 0
    ELSE Len(SelectSeq(Head(g), LAMBDA c : c = Black)) + Blacks(Tail(g))
\* The Black cells are at most 16 percent of the cells, the percentage
\* rounded down: under 17 percent.
UnderCap(g) == Blacks(g) * 100 < (PERCENT_BLACK + 1) * Len(g) * Len(g)

\* C3: validate_base runs its stages in the order square, 180-degree
\* symmetric, Black ratio, minimum word length and returns the error of the
\* first stage that fails, Ok when none does: an asymmetric grid over the cap
\* yields NotSymmetric, a symmetric grid over the cap with a short word
\* yields TooManyBlackSquares(16).
C3_ValidateBaseOrder ==
    ret.op = "validate_base" =>
        ret.val = IF ~ Square(cells) THEN NotSymmetric
                  ELSE IF ~ Symmetric180(cells) THEN NotSymmetric
                  ELSE IF ~ UnderCap(cells) THEN TooManyBlackSquares(16)
                  ELSE no_too_short_words(Self)

\* validate_base has answered TooManyBlackSquares for a symmetric grid over
\* the cap that also has a short word.
C3_Witness ==
    /\ ret.op = "validate_base"
    /\ Square(cells) /\ Symmetric180(cells) /\ ~ UnderCap(cells)
    /\ no_too_short_words(Self) # Ok
    /\ ret.val = TooManyBlackSquares(16)

\* The words of the puzzle, across then down, and the places of a repeat.
Words == AllWordStrings(Self)
RepeatAt(j) == \E i \in 1..(j - 1) : Words[i] = Words[j]
HasRepeat == \E j \in 1..Len(Words) : RepeatAt(j)
FirstRepeat == Words[CHOOSE j \in 1..Len(Words) :
                        RepeatAt(j) /\ \A k \in 1..(j - 1) : ~ RepeatAt(k)]
\* A word of fewer than 3 letters.
ShortWord(w) == Len(w) < 3
HasShort == \E j \in 1..Len(Words) : ShortWord(Words[j])
FirstShort == Words[CHOOSE j \in 1..Len(Words) :
                       ShortWord(Words[j]) /\ \A k \in 1..(j - 1) : ~ ShortWord(Words[k])]

\* C4: validate_words checks repeated word, then short word, then
\* dictionary: a word met twice among the across then the down words gives
\* RepeatWord of the first word met a second time, even with a short word in
\* the grid; otherwise a word shorter than 3 gives WordTooShort of the first
\* such word; only otherwise is the dictionary consulted.
C4_ValidateWordsOrder ==
    ret.op = "validate_words" =>
        IF HasRepeat THEN ret.val = RepeatWord(FirstRepeat)
        ELSE IF HasShort THEN ret.val = WordTooShort(FirstShort)
        ELSE ret.val.tag \in {"Ok", "MadeUpWord"}

\* The order of C4 with the length of a word taken as String::len takes it,
\* in bytes: this is what no_too_short_words compares with 3.
ShortString(w) == StrLen(w) < 3
ValidateWordsOrderInBytes ==
    ret.op = "validate_words" =>
        IF HasRepeat THEN ret.val = RepeatWord(FirstRepeat)
        ELSE IF \E j \in 1..Len(Words) : ShortString(Words[j])
             THEN ret.val = WordTooShort(
                      Words[CHOOSE j \in 1..Len(Words) :
                               /\ ShortString(Words[j])
                               /\ \A k \in 1..(j - 1) : ~ ShortString(Words[k])])
        ELSE ret.val.tag \in {"Ok", "MadeUpWord"}

\* The words the dictionary holds, and the words of the puzzle it lacks.
DictWords(d) == UNION {d[i] : i \in 1..Len(d)}
MadeUp == SelectSeq(Words, LAMBDA w : to_ascii_lowercase(w) \notin DictWords(dict))

\* C5: with no word repeated and none shorter than 3, validate_words returns
\* Ok when the dictionary holds the lowercased form of every word, and
\* otherwise one MadeUpWord error naming every word it lacks, across words
\* then down words in order, joined by ", ".
C5_MadeUpWordsAggregated ==
    (ret.op = "validate_words" /\ ~ HasRepeat /\ ~ HasShort) =>
        ret.val = IF MadeUp = <<>>
                  THEN Ok
                  ELSE MadeUpWord(Join(MadeUp, <<",", " ">>))

\* validate_words has reported several made-up words of a puzzle that also
\* has words the dictionary holds.
C5_Witness ==
    /\ ret.op = "validate_words" /\ ~ HasRepeat /\ ~ HasShort
    /\ Len(MadeUp) >= 2 /\ Len(MadeUp) < Len(Words)
    /\ ret.val.tag = "MadeUpWord"

\* C9: on a square grid acceptable_black_square_count returns Ok iff
\* (black_count * 100) / (size * size), rounded down, is at most 16, and
\* TooManyBlackSquares(16) otherwise; a grid of exactly 16 percent passes.
C9_BlackRatio ==
    (ret.op = "acceptable_black_square_count" /\ Square(cells)) =>
        LET total == size * size
            percent == CHOOSE q \in 0..100 :
                           q * total <= Blacks(cells) * 100
                           /\ Blacks(cells) * 100 < (q + 1) * total
        IN  ret.val = IF percent <= 16 THEN Ok ELSE TooManyBlackSquares(16)

\* acceptable_black_square_count has passed a grid whose Black cells are
\* exactly 16 percent.
C9_Witness ==
    /\ ret.op = "acceptable_black_square_count" /\ Square(cells)
    /\ Blacks(cells) * 100 = 16 * size * size
    /\ Blacks(cells) > 0
    /\ ret.val = Ok


\* The pattern vec read position by position: the word has exactly the
\* pattern's length and, ignoring case, the letter of every required position.
Satisfies(vec, word) ==
    /\ Len(word) = Len(vec)
    /\ \A j \in 1..Len(vec) :
          vec[j] = None \/ CharToAsciiLowercase(vec[j]) = CharToAsciiLowercase(word[j])

\* C7: SparseWord::matches(word) is true iff word has exactly the pattern's
\* length and agrees, ignoring case, with every required letter; a pattern
\* of length 3 never matches a word of another length.
C7_MatchesExactLength ==
    ret.op = "matches" => (ret.val <=> Satisfies(ret.partial_word, ret.word))

\* C8: suggest_words(pattern, count) returns exactly min(count, m) distinct
\* words, m the number of words of the bucket of the pattern's length that
\* satisfy the pattern; each is in that bucket and satisfies the pattern;
\* the result never has more than count words, count = 0 included.
C8_SuggestAtMostCount ==
    ret.op = "suggest_words" =>
        LET vec == ret.partial_word
            bucket == {w \in DictWords(dict) : StrLen(w) = Len(vec)}
            m == Cardinality({w \in bucket : Satisfies(vec, w)})
        IN  /\ Len(ret.val) = (IF ret.count <= m THEN ret.count ELSE m)
            /\ Len(ret.val) <= ret.count
            /\ \A i \in 1..Len(ret.val) :
                  /\ ret.val[i] \in bucket
                  /\ Satisfies(vec, ret.val[i])
                  /\ \A j \in 1..Len(ret.val) : i # j => ret.val[i] # ret.val[j]

\* The slice given to ok_dist_to_black_or_edge and the place, from 0, of its
\* first Black cell.
HasBlack(slice) == \E i \in 1..Len(slice) : slice[i] = Black
FirstBlack(slice) ==
    (CHOOSE i \in 1..Len(slice) :
        slice[i] = Black /\ \A k \in 1..(i - 1) : slice[k] # Black) - 1

\* C10 as claimed: ok_dist_to_black_or_edge is true for every slice with no
\* Black cell, whatever its length, true for a slice whose first cell is
\* Black, false for a first Black at position 1 or 2, true for one at
\* position 3 or later.
C10_OkDistAsClaimed ==
    ret.op = "ok_dist_to_black_or_edge" =>
        IF ~ HasBlack(arg.slice) THEN ret.val
        ELSE IF FirstBlack(arg.slice) = 0 THEN ret.val
        ELSE IF FirstBlack(arg.slice) \in {1, 2} THEN ~ ret.val
        ELSE ret.val

\* C10 amended: for a slice with no Black cell ok_dist_to_black_or_edge is
\* true iff the slice is empty or at least 3 long; with a Black cell it is
\* true for a first Black at position 0, false at position 1 or 2, true at
\* position 3 or later.
C10_OkDist ==
    ret.op = "ok_dist_to_black_or_edge" =>
        IF ~ HasBlack(arg.slice)
        THEN ret.val <=> (Len(arg.slice) = 0 \/ Len(arg.slice) >= 3)
        ELSE IF FirstBlack(arg.slice) = 0 THEN ret.val
        ELSE IF FirstBlack(arg.slice) \in {1, 2} THEN ~ ret.val
        ELSE ret.val

\* The function has answered false for a slice of two cells, none Black.
C10_Witness ==
    /\ ret.op = "ok_dist_to_black_or_edge"
    /\ ~ HasBlack(arg.slice) /\ Len(arg.slice) = 2
    /\ ~ ret.val

----------------------------------------------------------------------------
(* Claims on the text format.                                              *)

\* The rows of a buffer that are not blank, and their tokens.
TextRowsOf(buf) == SelectSeq(SplitOn(buf, LF), LAMBDA r : r # <<>>)
TokensOf(buf) ==
    UNION {{split_ascii_whitespace(TextRowsOf(buf)[i])[j] :
                j \in 1..Len(split_ascii_whitespace(TextRowsOf(buf)[i]))} :
           i \in 1..Len(TextRowsOf(buf))}

\* A token is exactly the black glyph, the empty glyph or one letter.
CellToken(t) ==
    t = <<BlackGlyph>> \/ t = <<EmptyGlyph>> \/ (Len(t) = 1 /\ is_alphabetic(t[1]))

\* C11: from_bytes fails with InvalidPuzzleFormat whenever a token of a
\* non-blank row of a UTF-8 buffer is not exactly the black glyph, the empty
\* glyph or a single alphabetic character; a token of more than one
\* character is rejected.
C11_BadTokenRejected ==
    (   ret.op = "from_bytes"
     /\ IsUtf8(ret.buf)
     /\ \E t \in TokensOf(ret.buf) : ~ CellToken(t))
    => ret.val.tag = "InvalidPuzzleFormat"

\* from_bytes as the code has it: Ok when every token begins, after trim,
\* with a glyph or a letter, InvalidPuzzleFormat otherwise.
FromBytesByFirstCharacter ==
    (   ret.op = "from_bytes"
     /\ IsUtf8(ret.buf)
     /\ \A t \in TokensOf(ret.buf) : trim(t) # <<>>)
    => (ret.val.tag = "Ok")
         = (\A t \in TokensOf(ret.buf) :
               Head(trim(t)) \in {BlackGlyph, EmptyGlyph} \/ is_alphabetic(Head(trim(t))))

\* C12: a grid of Black, Empty and letter cells written in the text format
\* and parsed by from_bytes comes back Ok and equal to the original, rows,
\* cells and letter case.
C12_RoundTrip ==
    ret.op = "reparse" => ret.val = OkGrid(ret.grid)

\* The round trip of the grids that have no row without cells.
RoundTripOfFullRows ==
    (ret.op = "reparse" /\ \A i \in 1..Len(ret.grid) : ret.grid[i] # <<>>)
    => ret.val = OkGrid(ret.grid)

----------------------------------------------------------------------------
(* Claims on the Dictionary.                                               *)

\* C13: the dictionary has a bucket for every word length from 1 to
\* MAX_WORD_LEN inclusive: is_valid(word) is true for every inserted word of
\* such a length, and false for every word that was never inserted.
C13_BucketForEveryLength ==
    ret.op = "is_valid"
    => /\ (ret.word \in arg.inserted /\ Len(ret.word) \in 1..MAX_WORD_LEN)
            => ret.val
       /\ ret.word \notin arg.inserted => ~ ret.val

\* The buckets the code has: the lengths in bytes from 0 to MAX_WORD_LEN - 1.
BucketsBelowMaxWordLen ==
    ret.op = "is_valid"
    => ret.val = (ret.word \in arg.inserted /\ StrLen(ret.word) < MAX_WORD_LEN)

----------------------------------------------------------------------------
(* Claims on word extraction.                                              *)

\* The positions of a line of cells where a maximal run of non-Black cells
\* starts, the position where the run that starts at i ends, and the k-th
\* start from the left.
RunStarts(line) ==
    {i \in 1..Len(line) : line[i] # Black /\ (i = 1 \/ line[i - 1] = Black)}
RunEnd(line, i) ==
    CHOOSE j \in i..Len(line) :
        /\ \A k \in i..j : line[k] # Black
        /\ j = Len(line) \/ line[j + 1] = Black
NthStart(line, k) ==
    CHOOSE i \in RunStarts(line) :
        Cardinality({h \in RunStarts(line) : h < i}) = k - 1

\* The string of a run: the letter of a letter cell, the placeholder of an
\* Empty cell, one character for each cell.
RunString(line, i) ==
    [k \in 1..(RunEnd(line, i) - i + 1) |->
        IF line[i + k - 1] = Empty THEN "_" ELSE line[i + k - 1]]

\* The runs of one line from left to right, and of the lines in order.
RunsOfLine(line) ==
    [k \in 1..Cardinality(RunStarts(line)) |-> RunString(line, NthStart(line, k))]
RECURSIVE RunsOfLines(_)
RunsOfLines(lines) ==
    IF lines = <<>> THEN <<>>
    ELSE RunsOfLine(Head(lines)) \o RunsOfLines(Tail(lines))

\* The columns of a grid whose rows are equally long, from left to right.
Rectangular(g) == \A y \in 1..Len(g) : Len(g[y]) = Len(g[1])
Columns(g) == [x \in 1..Len(g[1]) |-> [y \in 1..Len(g) |-> g[y][x]]]

\* C14: the across words are the maximal non-empty runs of non-Black cells
\* of the rows, row by row and left to right; the down words are those of
\* the columns, column by column and top to bottom; all words are the across
\* words then the down words; a word is the string of its cells in order, an
\* Empty cell a placeholder character, as many characters as the run has
\* cells.
C14_WordExtraction ==
    Rectangular(cells)
    => LET across == words_across_iter(Self)
           down == words_down_iter(Self)
           all == all_words_iter(Self)
           strings == AllWordStrings(Self)
           row_runs == RunsOfLines(cells)
           column_runs == RunsOfLines(Columns(cells))
       IN  /\ [i \in 1..Len(across) |-> as_string(across[i])] = row_runs
           /\ [i \in 1..Len(down) |-> as_string(down[i])] = column_runs
           /\ strings = row_runs \o column_runs
           /\ \A i \in 1..Len(all) :
                 Len(strings[i]) = Len(all[i]) /\ Len(all[i]) > 0

\* The words of a grid with a row of two runs and an Empty cell in a word
\* have been extracted by validate_words.
C14_Witness ==
    /\ ret.op = "validate_words"
    /\ Rectangular(cells)
    /\ \E y \in 1..Len(cells) : Cardinality(RunStarts(cells[y])) = 2
    /\ \E i \in 1..Len(AllWordStrings(Self)) :
          \E k \in 1..Len(AllWordStrings(Self)[i]) : AllWordStrings(Self)[i][k] = "_"
    /\ Len(words_down_iter(Self)) > Len(cells[1])

----------------------------------------------------------------------------
(* Claims on random_black.                                                 *)

\* A step of the scan that places a Black cell without reaching the stop
\* count, and a step that places nothing.
PlacedAndGoesOn == pc = "scan" /\ pc' = "scan" /\ black_set' = black_set + 1
FailedAttempt == pc = "scan" /\ pc' = "scan" /\ black_set' = black_set

\* After a failed attempt the scan is at the next cell of the quadrant in
\* row order, at the top again only after the last cell.
MovesToNextCell ==
    IF col + 1 < quadrant(size) THEN row' = row /\ col' = col + 1
    ELSE row' = (row + 1) % quadrant(size) /\ col' = 0

\* C15, as claimed: after every placement that does not reach the stop
\* count the next cell examined is row 0, column 0; a failed attempt does
\* not restart the scan.
C15_RestartsFromTop ==
    [][/\ PlacedAndGoesOn => (row' = 0 /\ col' = 0)
       /\ FailedAttempt => MovesToNextCell]_vars

\* C15: after a placement that does not reach the stop count the scan
\* leaves the row of the placement and goes on at column 0 of the next row
\* of the quadrant, which is row 0 only after the last row; a failed attempt
\* moves the scan to the next cell.
C15_GoesOnAtNextRow ==
    [][/\ PlacedAndGoesOn => (row' = (row + 1) % quadrant(size) /\ col' = 0)
       /\ FailedAttempt => MovesToNextCell]_vars

\* The scan is at the start of a row below row 0 right after a placement in
\* the row above, left of that row's last quadrant cell.
C15_Witness ==
    /\ pc = "scan"
    /\ black_set >= 1
    /\ row >= 1 /\ col = 0
    /\ \E x \in 0..(quadrant(size) - 2) :
          /\ GridGet(cells, x, row - 1) = Black
          /\ \A r \in row..(quadrant(size) - 1) : \A c \in 0..(quadrant(size) - 1) :
                GridGet(cells, c, r) # Black
          /\ BlackCount(cells) = 4 * black_set


\* random_black is running, or has run, on a puzzle that Puzzle::new made
\* with a side of 5 or more and that nothing else was called on.
OnNewPuzzle == arg.op = "new" /\ calls = 0 /\ size >= 5

\* The stop count of random_black: ((size*size*16)/100)/4.
StopCount == ((size * size * 16) \div 100) \div 4

\* The cells that differ between the grid before and after a step.
ChangedCells ==
    {xy \in (0..(size - 1)) \X (0..(size - 1)) :
        GridGet(cells, xy[1], xy[2]) # GridGet(cells', xy[1], xy[2])}

\* C16: random_black on an all-Empty puzzle of size >= 5 has not returned
\* while fewer than ((size*size*16)/100)/4 placements are made and returns
\* with the placement that reaches this count; each placement turns exactly
\* 4 distinct cells that were not Black into Black cells; at the return the
\* grid holds exactly 4 * (((size*size*16)/100)/4) Black cells, which is at
\* most (size*size*16)/100.
C16_StopsAtCount ==
    /\ [](OnNewPuzzle =>
            /\ pc = "scan" => black_set < StopCount
            /\ pc = "done" =>
                  /\ black_set = StopCount
                  /\ BlackCount(cells) = 4 * StopCount
                  /\ BlackCount(cells) <= (size * size * 16) \div 100)
    /\ [][(OnNewPuzzle /\ pc = "scan") =>
            /\ black_set' = black_set + 1 =>
                  /\ Cardinality(ChangedCells) = 4
                  /\ \A xy \in ChangedCells :
                        /\ GridGet(cells, xy[1], xy[2]) # Black
                        /\ GridGet(cells', xy[1], xy[2]) = Black
                  /\ pc' = "done" <=> black_set + 1 = StopCount
            /\ black_set' # black_set + 1 =>
                  /\ cells' = cells
                  /\ pc' = "scan"]_vars

\* random_black has returned from a run of two or more placements.
C16_Witness ==
    /\ OnNewPuzzle
    /\ pc = "done"
    /\ black_set >= 2
    /\ BlackCount(cells) = 4 * black_set


----------------------------------------------------------------------------
(* Claims on valid_black_placement and set_symmetric.                      *)

\* The number of consecutive non-Black cells of the grid from the cell next
\* to (x, y) in the direction (dx, dy), up to a Black cell or the edge.
InGrid(x, y) == x \in 0..(size - 1) /\ y \in 0..(size - 1)
RECURSIVE RunFrom(_, _, _, _)
RunFrom(x, y, dx, dy) ==
    IF InGrid(x + dx, y + dy) /\ GridGet(cells, x + dx, y + dy) # Black
    THEN 1 + RunFrom(x + dx, y + dy, dx, dy)
    ELSE 0
RunOk(n) == n = 0 \/ n >= 3

\* valid_black_placement is asked when the scan of random_black is at a
\* cell that is not Black.
AsksPlacement == pc = "scan" /\ GridGet(cells, col, row) # Black

\* C17: valid_black_placement((x, y)) is true iff each of the four runs of
\* non-Black cells that start next to (x, y), to its left, right, above and
\* below, and end before the first Black cell or at the edge, has length 0
\* or at least 3; the cell itself is in no run, letter and Empty cells both
\* count as non-Black, and the grid is not modified.
C17_ValidBlackPlacement ==
    /\ [](\A x \in 0..(size - 1), y \in 0..(size - 1) :
            valid_black_placement(Self, x, y)
              <=> /\ RunOk(RunFrom(x, y, -1, 0))
                  /\ RunOk(RunFrom(x, y, 1, 0))
                  /\ RunOk(RunFrom(x, y, 0, -1))
                  /\ RunOk(RunFrom(x, y, 0, 1)))
    /\ [][(AsksPlacement /\ ~ valid_black_placement(Self, col, row))
            => UNCHANGED puzzle]_vars

\* The scan of random_black is at a cell where valid_black_placement is
\* false for one run only, the others being of length 0 or 3 and more.
C17_Witness ==
    /\ AsksPlacement
    /\ ~ valid_black_placement(Self, col, row)
    /\ RunFrom(col, row, -1, 0) \in {1, 2}
    /\ RunOk(RunFrom(col, row, 1, 0))
    /\ RunOk(RunFrom(col, row, 0, -1))
    /\ RunOk(RunFrom(col, row, 0, 1))

\* valid_black_placement is true of a cell of a grid with a letter cell in
\* one of the four runs.
PlacementNextToLetter ==
    \E x \in 0..(size - 1), y \in 0..(size - 1) :
        /\ valid_black_placement(Self, x, y)
        /\ x + 1 < size /\ GridGet(cells, x + 1, y) \notin {Black, Empty}
        /\ pc = "scan"


\* The image of a cell under a quarter turn and under a half turn.
QuarterTurn(xy) == <<size - 1 - xy[2], xy[1]>>
HalfTurn(xy) == <<size - 1 - xy[1], size - 1 - xy[2]>>
BlackCells == {xy \in (0..(size - 1)) \X (0..(size - 1)) : GridGet(cells, xy[1], xy[2]) = Black}

\* The four coordinates set_symmetric writes for (x, y).
FourCoordinates(x, y) ==
    {<<x, y>>, <<size - 1 - y, x>>, <<size - 1 - x, size - 1 - y>>, <<y, size - 1 - x>>}

\* C18: while random_black runs on an initially all-Empty puzzle, after
\* every set_symmetric call the set of Black cells is invariant under the
\* quarter turn (x, y) -> (size-1-y, x) and so under the half turn
\* (x, y) -> (size-1-x, size-1-y), and is_symmetric returns Ok;
\* set_symmetric changes no cell other than (x, y), (size-1-y, x),
\* (size-1-x, size-1-y) and (y, size-1-x).
C18_QuarterTurnSymmetry ==
    /\ []((arg.op = "new" /\ calls = 0 /\ pc \in {"scan", "done"}) =>
            /\ {QuarterTurn(xy) : xy \in BlackCells} = BlackCells
            /\ {HalfTurn(xy) : xy \in BlackCells} = BlackCells
            /\ is_symmetric(cells) = Ok)
    /\ [][(pc = "scan" /\ black_set' = black_set + 1)
            => ChangedCells \subseteq FourCoordinates(col, row)]_vars

\* random_black has placed two or more times, on cells off the diagonal
\* among them.
C18_Witness ==
    /\ arg.op = "new" /\ calls = 0 /\ pc = "scan"
    /\ black_set >= 2
    /\ \E xy \in BlackCells : xy[1] # xy[2] /\ xy[1] + xy[2] # size - 1


\* A cell of the top-left quadrant that is not Black and where
\* valid_black_placement allows a Black cell.
EligibleCells ==
    {xy \in (0..(quadrant(size) - 1)) \X (0..(quadrant(size) - 1)) :
        /\ GridGet(cells, xy[1], xy[2]) # Black
        /\ valid_black_placement(Self, xy[1], xy[2])}


\* C19: under fair coin flips random_black on an all-Empty puzzle of size
\* >= 5 eventually returns: in every reachable state where the placed count
\* is below ((size*size*16)/100)/4 some non-Black cell of the top-left
\* quadrant satisfies valid_black_placement, so the generator is never
\* stuck without an eligible cell.
C19_EventuallyReturns ==
    /\ []((OnNewPuzzle /\ pc = "scan" /\ black_set < StopCount)
            => EligibleCells # {})
    /\ (OnNewPuzzle /\ pc = "scan") ~> (pc = "done")

\* random_black on the sizes below 10 is never without an eligible cell.
NeverStuckBelowTen ==
    (OnNewPuzzle /\ pc = "scan" /\ size < 10) => EligibleCells # {}

\* random_black on the sizes below 10 returns under fair coin flips.
ReturnsBelowTen == (OnNewPuzzle /\ pc = "scan" /\ size < 10) ~> (pc = "done")

====
